---- MODULE Spec2Model ----
(***************************************************************************)
(* Model of the healthcare chat agent: the POST /api/chat turn pipeline    *)
(* (app/api/chat/route.ts), the SQLite transcript store                    *)
(* (lib/chat-storage.ts) and the usage logger (lib/logger.ts).             *)
(*                                                                         *)
(* The specifications share the variables:                                 *)
(*   Spec       the turn pipeline, one request after another, writing the  *)
(*              transcript store, the fact graph and the usage log;        *)
(*   SpecStore  the chat-storage module called directly (createChat,       *)
(*              saveChat with optional role / patientId, loadChat and      *)
(*              listChats);                                                *)
(*   SpecConc   two turns of one conversation in flight at once;           *)
(*   SpecMixed  two turns in flight at once, of two conversations, with    *)
(*              createChat, loadChat and listChats called meanwhile;       *)
(*   SpecCancel Spec with a caller that may disconnect during the stream.  *)
(***************************************************************************)
EXTENDS Integers, Sequences, FiniteSets, TLC

\* ------------------------------------------------------------------ bounds
\* turns handled in one behaviour of Spec
MaxTurns == 2
\* chunks the generation service produces in one turn
MaxChunks == 1
\* storage calls in one behaviour of SpecStore
MaxOps == 3
\* direct storage calls in one behaviour of SpecMixed
MaxMixedOps == 1

\* ------------------------------------------------------------------ program constants
\* route.ts:123  limit: 8
SearchLimit == 8
\* chat-storage.ts  .slice(0, 200)
PreviewLimit == 200

\* ------------------------------------------------------------------ text
\* A text is a sequence of one-character strings.
Min(a, b) == IF a <= b THEN a ELSE b

Max(a, b) == IF a >= b THEN a ELSE b

RECURSIVE TrimStart(_)
TrimStart(s) ==
  IF s = <<>> THEN <<>>
  ELSE IF Head(s) = " " THEN TrimStart(Tail(s)) ELSE s

RECURSIVE TrimEnd(_)
TrimEnd(s) ==
  IF s = <<>> THEN <<>>
  ELSE IF s[Len(s)] = " " THEN TrimEnd(SubSeq(s, 1, Len(s) - 1)) ELSE s

\* String.prototype.trim
Trim(s) == TrimEnd(TrimStart(s))

\* Array.prototype.join(" ") over a sequence of texts
RECURSIVE JoinSpace(_)
JoinSpace(ts) ==
  IF ts = <<>> THEN <<>>
  ELSE IF Len(ts) = 1 THEN ts[1]
  ELSE ts[1] \o <<" ">> \o JoinSpace(Tail(ts))

\* s.slice(0, n)
SliceHead(s, n) == SubSeq(s, 1, Min(n, Len(s)))

\* a.slice(-n)
SliceLast(s, n) == SubSeq(s, Max(1, Len(s) - n + 1), Len(s))

\* ------------------------------------------------------------------ messages
TextPart(t) == [type |-> "text", text |-> t]

FilePart == [type |-> "file", text |-> <<>>]

Msg(r, ps) == [role |-> r, parts |-> ps]

\* m.parts.filter(p => p.type === "text").map(p => p.text)
RECURSIVE PartTexts(_)
PartTexts(ps) ==
  IF ps = <<>> THEN <<>>
  ELSE IF Head(ps).type = "text"
       THEN <<Head(ps).text>> \o PartTexts(Tail(ps))
       ELSE PartTexts(Tail(ps))

\* An optional value: {} is undefined / null / SQL NULL, {x} is the value x.
NULL == {}

Some(x) == {x}

TheValue(o) == CHOOSE x \in o : TRUE

\* JavaScript truthiness of an optional text-like value (a string or a sequence)
TruthyText(o) == o # NULL /\ TheValue(o) # <<>>

TruthyString(o) == o # NULL /\ TheValue(o) # ""

\* ------------------------------------------------------------------ chat-storage.ts
VARIABLES
  chats,     \* the chats table: id -> row (its domain is the set of stored ids)
  clock      \* the latest value Date.now() returned

\* JSON.stringify(messages): the stored TEXT column. The text lists, for each
\* message, its role and its parts, each part as its type and its text.
JSONstringify(ms) ==
  [json |-> [i \in 1..Len(ms) |->
               <<ms[i].role,
                 [j \in 1..Len(ms[i].parts) |-> <<ms[i].parts[j].type, ms[i].parts[j].text>>]>>]]

\* JSON.parse(row.messages) as UIMessage[]
JSONparse(text) ==
  [i \in 1..Len(text.json) |->
     Msg(text.json[i][1],
         [j \in 1..Len(text.json[i][2]) |->
            [type |-> text.json[i][2][j][1], text |-> text.json[i][2][j][2]]])]

\* a preview that is not cut
LastTextUncut(messages) ==
  IF messages = <<>> THEN NULL
  ELSE Some(JoinSpace(PartTexts(messages[Len(messages)].parts)))

\* the derived preview of saveChat
LastText(messages) ==
  IF messages = <<>> THEN NULL
  ELSE Some(SliceHead(JoinSpace(PartTexts(messages[Len(messages)].parts)), PreviewLimit))

\* `${role} ↔ Patient ${patientId}`, or null
Title(role, patientId) ==
  IF TruthyString(role) /\ TruthyString(patientId)
  THEN Some(<<TheValue(role), " <-> Patient ", TheValue(patientId)>>)
  ELSE NULL

\* SQL COALESCE(new, old)
COALESCE(new, old) == IF new # NULL THEN new ELSE old

\* the INSERT branch of saveChat
InsertRow(messages, role, patientId, now) ==
  [ role        |-> role,
    patientId   |-> patientId,
    title       |-> Title(role, patientId),
    createdAt   |-> now,
    updatedAt   |-> now,
    lastMessage |-> LastText(messages),
    messages    |-> JSONstringify(messages) ]

\* an UPDATE that overwrites the identity fields with whatever the call carries
UpdateRowOverwrite(old, messages, role, patientId, now) ==
  [ role        |-> role,
    patientId   |-> patientId,
    title       |-> Title(role, patientId),
    createdAt   |-> old.createdAt,
    updatedAt   |-> now,
    lastMessage |-> LastText(messages),
    messages    |-> JSONstringify(messages) ]

\* an UPDATE whose COALESCE arguments are swapped: the stored identity wins
UpdateRowFirstWriter(old, messages, role, patientId, now) ==
  [ role        |-> COALESCE(old.role, role),
    patientId   |-> COALESCE(old.patientId, patientId),
    title       |-> COALESCE(old.title, Title(role, patientId)),
    createdAt   |-> old.createdAt,
    updatedAt   |-> now,
    lastMessage |-> LastText(messages),
    messages    |-> JSONstringify(messages) ]

\* an UPDATE that also stamps createdAt
UpdateRowStampsCreated(old, messages, role, patientId, now) ==
  [ role        |-> COALESCE(role, old.role),
    patientId   |-> COALESCE(patientId, old.patientId),
    title       |-> COALESCE(Title(role, patientId), old.title),
    createdAt   |-> now,
    updatedAt   |-> now,
    lastMessage |-> LastText(messages),
    messages    |-> JSONstringify(messages) ]

\* an UPDATE that writes the content and never the identity fields
UpdateRowContentOnly(old, messages, role, patientId, now) ==
  [ role        |-> old.role,
    patientId   |-> old.patientId,
    title       |-> old.title,
    createdAt   |-> old.createdAt,
    updatedAt   |-> now,
    lastMessage |-> LastText(messages),
    messages    |-> JSONstringify(messages) ]

\* an UPDATE that leaves updatedAt as it was
UpdateRowKeepsUpdatedAt(old, messages, role, patientId, now) ==
  [ role        |-> COALESCE(role, old.role),
    patientId   |-> COALESCE(patientId, old.patientId),
    title       |-> COALESCE(Title(role, patientId), old.title),
    createdAt   |-> old.createdAt,
    updatedAt   |-> old.updatedAt,
    lastMessage |-> LastText(messages),
    messages    |-> JSONstringify(messages) ]

\* an UPDATE that never writes the messages column
UpdateRowKeepsMessages(old, messages, role, patientId, now) ==
  [ role        |-> COALESCE(role, old.role),
    patientId   |-> COALESCE(patientId, old.patientId),
    title       |-> COALESCE(Title(role, patientId), old.title),
    createdAt   |-> old.createdAt,
    updatedAt   |-> now,
    lastMessage |-> LastText(messages),
    messages    |-> old.messages ]

\* an UPDATE that appends the new messages to the stored ones
UpdateRowMerging(old, messages, role, patientId, now) ==
  [ role        |-> COALESCE(role, old.role),
    patientId   |-> COALESCE(patientId, old.patientId),
    title       |-> COALESCE(Title(role, patientId), old.title),
    createdAt   |-> old.createdAt,
    updatedAt   |-> now,
    lastMessage |-> LastText(messages),
    messages    |-> JSONstringify(JSONparse(old.messages) \o messages) ]

\* the UPDATE branch of saveChat
UpdateRow(old, messages, role, patientId, now) ==
  [ role        |-> COALESCE(role, old.role),
    patientId   |-> COALESCE(patientId, old.patientId),
    title       |-> COALESCE(Title(role, patientId), old.title),
    createdAt   |-> old.createdAt,
    updatedAt   |-> now,
    lastMessage |-> LastText(messages),
    messages    |-> JSONstringify(messages) ]

\* a saveChat whose UPDATE has no WHERE clause
SaveChatTableNoWhere(table, chatId, messages, role, patientId, now) ==
  IF chatId \notin DOMAIN table
  THEN [id \in DOMAIN table \cup {chatId} |->
          IF id = chatId THEN InsertRow(messages, role, patientId, now) ELSE table[id]]
  ELSE [id \in DOMAIN table |-> UpdateRow(table[id], messages, role, patientId, now)]

\* the table after saveChat({chatId, messages, role, patientId}) at time now
SaveChatTable(table, chatId, messages, role, patientId, now) ==
  IF chatId \notin DOMAIN table
  THEN [id \in DOMAIN table \cup {chatId} |->
          IF id = chatId THEN InsertRow(messages, role, patientId, now) ELSE table[id]]
  ELSE [table EXCEPT ![chatId] = UpdateRow(@, messages, role, patientId, now)]

\* a saveChat with no SELECT before its INSERT
SaveChatInsertsAlways(table, chatId) == 1

\* the rows saveChat adds: its INSERT runs only when the SELECT found no row
SaveChatInserts(table, chatId) == IF chatId \in DOMAIN table THEN 0 ELSE 1

\* the rows createChat adds: INSERT OR IGNORE adds none when the id has a row
CreateChatInserts(table, id) == IF id \in DOMAIN table THEN 0 ELSE 1

\* the table after createChat() drew id at time now (INSERT OR IGNORE)
CreateChatTable(table, id, now) ==
  IF id \in DOMAIN table THEN table
  ELSE [i \in DOMAIN table \cup {id} |->
          IF i = id
          THEN [ role |-> NULL, patientId |-> NULL, title |-> NULL,
                 createdAt |-> now, updatedAt |-> now,
                 lastMessage |-> NULL, messages |-> JSONstringify(<<>>) ]
          ELSE table[i]]

\* a loadChat whose SELECT has no WHERE clause: it reads whichever row comes first
LoadChatAnyRow(table, chatId) ==
  IF DOMAIN table = {} THEN <<>>
  ELSE JSONparse(table[CHOOSE id \in DOMAIN table : TRUE].messages)

\* loadChat(chatId): [] when there is no row, else the parsed messages column
\* (the column is NOT NULL and holds the text JSON.stringify wrote, "[]" at least,
\* so the text is truthy and JSON.parse does not throw)
LoadChatResult(table, chatId) ==
  IF chatId \notin DOMAIN table THEN <<>>
  ELSE JSONparse(table[chatId].messages)

\* the summary listChats returns for a row
Summary(table, id) ==
  [ id          |-> id,
    role        |-> table[id].role,
    patientId   |-> table[id].patientId,
    title       |-> IF table[id].title # NULL THEN TheValue(table[id].title)
                    ELSE <<"Conversation ", id>>,
    createdAt   |-> table[id].createdAt,
    updatedAt   |-> table[id].updatedAt,
    lastMessage |-> table[id].lastMessage ]

\* SELECT ... FROM chats ORDER BY updatedAt DESC: the orders of the rows the
\* statement allows (rows of equal updatedAt may come in either order)
ListOrders(table) ==
  { o \in [1..Cardinality(DOMAIN table) -> DOMAIN table] :
      /\ \A i, j \in DOMAIN o : i # j => o[i] # o[j]
      /\ \A i, j \in DOMAIN o : i < j => table[o[i]].updatedAt >= table[o[j]].updatedAt }

\* listChats() when the statement returned the rows in order o
ListChatsResult(table, o) == [i \in DOMAIN o |-> Summary(table, o[i])]

\* ------------------------------------------------------------------ request bodies
\* A JSON value of the request body: its type tag and its value.
JUndefined == [t |-> "undefined", v |-> <<>>]

JNumber == [t |-> "number", v |-> 7]

JString(x) == [t |-> "string", v |-> x]

JArray(a) == [t |-> "array", v |-> a]

\* JavaScript truthiness of a JSON value
Truthy(j) ==
  CASE j.t = "undefined" -> FALSE
    [] j.t = "string"    -> j.v # ""
    [] j.t = "number"    -> j.v # 0
    [] j.t = "array"     -> TRUE

ValidRoles == {"doctor", "nurse", "receptionist"}

\* sample messages: a user text, a user message of blank text, a user message
\* with no text part, an assistant text
UserA == Msg("user", <<TextPart(<<"a">>)>>)

UserBlank == Msg("user", <<TextPart(<<" ">>)>>)

UserFile == Msg("user", <<FilePart>>)

AssistantB == Msg("assistant", <<TextPart(<<"b">>)>>)

\* the message lists valid requests carry: no message, a user text, a blank user
\* text, a user message with no text part, an assistant message alone, and a
\* history longer than the window sent to the model that, with its reply, is
\* longer than the window submitted to the fact graph
InboundLists ==
  { <<>>, <<UserA>>, <<UserBlank>>, <<UserFile>>, <<AssistantB>>,
    <<AssistantB, UserA, AssistantB, UserA>> }

PatientIds == {"p1", "p2"}

\* what req.json() yields: a rejection (the body is not JSON), null, or an object
OtherBody(k) ==
  [ kind |-> k, messages |-> JUndefined, chatId |-> JUndefined,
    role |-> JUndefined, patientId |-> JUndefined ]

\* well-formed bodies
ValidBodies ==
  [ kind : {"object"}, messages : {JArray(l) : l \in InboundLists},
    chatId : {JString("c1")}, role : {JString(r) : r \in ValidRoles},
    patientId : {JString(p) : p \in PatientIds} ]

\* bodies with each field absent, of the wrong type, out of range, or in order
ProbeBodies ==
  [ kind : {"object"},
    messages : {JUndefined, JString("x"), JArray(<<UserA>>)},
    chatId : {JUndefined, JNumber, JString("c1")},
    role : {JUndefined, JNumber, JString("admin"), JString("doctor")},
    patientId : {JUndefined, JNumber, JString("p1")} ]

Bodies == ValidBodies \cup ProbeBodies \cup {OtherBody("not-json"), OtherBody("null")}

\* ------------------------------------------------------------------ route.ts: pure parts
\* Response.json({error}, {status: 400}); error names the field
Reject(field) == [status |-> 400, error |-> field, stream |-> "none"]

\* an exception escaping POST: the framework answers 500
Crash(what) == [status |-> 500, error |-> what, stream |-> "none"]

Streaming == [status |-> 200, error |-> "", stream |-> "open"]

NoResponse == [status |-> 0, error |-> "", stream |-> "none"]

\* the four field checks of POST, in order; "ok" when all pass
FieldCheck(body) ==
  IF ~Truthy(body.messages) \/ body.messages.t # "array" THEN "messages"
  ELSE IF ~Truthy(body.chatId) \/ body.chatId.t # "string" THEN "chatId"
  ELSE IF ~Truthy(body.role) \/ body.role.t # "string" \/ body.role.v \notin ValidRoles
       THEN "role"
  ELSE IF ~Truthy(body.patientId) \/ body.patientId.t # "string" THEN "patientId"
  ELSE "ok"

\* POST up to the end of validation: the response it returns, or NoResponse
\* when the turn goes on
Validate(body) ==
  IF body.kind = "not-json" THEN Reject("body")
  ELSE IF body.kind = "null" THEN Crash("TypeError: cannot destructure null")
  ELSE IF FieldCheck(body) # "ok" THEN Reject(FieldCheck(body))
  ELSE NoResponse

\* getLastUserText: undefined when there is no user message
getLastUserText(messages) ==
  LET users == {i \in 1..Len(messages) : messages[i].role = "user"}
  IN  IF users = {} THEN NULL
      ELSE LET last == CHOOSE i \in users : \A j \in users : j <= i
           IN  Some(Trim(JoinSpace(PartTexts(messages[last].parts))))

\* uiMessageToText
uiMessageToText(m) == Trim(JoinSpace(PartTexts(m.parts)))

\* the role-specific base instruction
SystemInstruction(role) ==
  IF role = "doctor" THEN "doctor-template"
  ELSE IF role = "nurse" THEN "nurse-template"
  ELSE "receptionist-template"

\* the memory section of the prompt
ErrorNote(reason) == [kind |-> "error", reason |-> reason, facts |-> {}]

FactsNote(facts) == [kind |-> "facts", reason |-> "", facts |-> facts]

NoHistoryNote == [kind |-> "none", reason |-> "", facts |-> {}]

\* a memoryNote that never looks at memoryError
MemoryNoteIgnoringError(memoryError, memoryContext) ==
  IF memoryContext # {} THEN FactsNote(memoryContext) ELSE NoHistoryNote

\* a memoryNote with no no-history marker
MemoryNoteFactsAlways(memoryError, memoryContext) ==
  IF memoryError # NULL THEN ErrorNote(TheValue(memoryError))
  ELSE FactsNote(memoryContext)

\* memoryNote: memoryError ? error : memoryContext ? context : no-history.
\* memoryError is null or a text that starts "Failed to search Neo4j: " (truthy);
\* memoryContext is the set of fact lines ("" when there is none)
MemoryNote(memoryError, memoryContext) ==
  IF memoryError # NULL THEN ErrorNote(TheValue(memoryError))
  ELSE IF memoryContext # {} THEN FactsNote(memoryContext)
  ELSE NoHistoryNote

SystemPrompt(body, note) ==
  [ instruction |-> SystemInstruction(body.role.v),
    patientId   |-> body.patientId.v,
    role        |-> body.role.v,
    memoryNote  |-> note ]

\* the whole history sent to the model
RecentMessagesAll(messages) == messages

\* messages.length <= 2 ? messages : messages.slice(-2)
RecentMessages(messages) ==
  IF Len(messages) <= 2 THEN messages ELSE SliceLast(messages, 2)

\* convertToModelMessages: each UI message becomes a role + content message
convertToModelMessages(ms) ==
  [i \in 1..Len(ms) |-> [role |-> ms[i].role, content |-> ms[i].parts]]

\* search options without the role
SearchScopeNoRole(body) ==
  [userId |-> Some(body.patientId.v), agentId |-> NULL, limit |-> SearchLimit]

\* options of memory.search
SearchScope(body) ==
  [userId |-> Some(body.patientId.v), agentId |-> Some(body.role.v), limit |-> SearchLimit]

\* options of memory.add
AddScope(body) ==
  [userId |-> Some(body.patientId.v), agentId |-> Some(body.role.v),
   runId |-> Some(body.chatId.v)]

\* a submission of every message, with no window
Mem0MessagesAll(updatedMessages) ==
  [i \in 1..Len(updatedMessages) |->
     [role |-> updatedMessages[i].role, content |-> uiMessageToText(updatedMessages[i])]]

\* updatedMessages.slice(-4).map(m => ({role, content: uiMessageToText(m)}))
Mem0Messages(updatedMessages) ==
  LET w == SliceLast(updatedMessages, 4)
  IN  [i \in 1..Len(w) |-> [role |-> w[i].role, content |-> uiMessageToText(w[i])]]

\* ------------------------------------------------------------------ state of the pipeline
Turns == {"t1"}

VARIABLES
  graph,         \* the fact-graph store behind memory: a set of tagged facts
  logLines,      \* lines appended to the usage log
  started,       \* turns received so far
  pc,            \* where each turn's handler is
  req,           \* the body the turn received
  resp,          \* the response the caller sees
  lastUserText,  \* the turn's lastUserText
  search,        \* the turn's memory.search call
  genInput,      \* what the turn passed to streamText
  gen,           \* the turn's generation stream
  logCall,       \* the turn's writeLog call
  saveCall,      \* the turn's saveChat call
  addCall        \* the turn's memory.add call

VARIABLES
  opCount,       \* storage calls made directly (SpecStore)
  lastCall,      \* the latest direct storage call and its arguments
  prevCall,      \* the direct storage call before it
  prevChats,     \* the table before the latest direct storage call
  result         \* what the latest loadChat or listChats returned

VARIABLES
  latest,        \* id -> the messages of the latest write that completed for the id
  recent,        \* the id the latest completed write was for
  inserted       \* id -> the number of rows INSERT statements have added under the id

storeVars == <<chats, clock>>

turnVars == <<pc, req, resp, lastUserText, search, genInput, gen, logCall, saveCall, addCall>>

directVars == <<opCount, lastCall, prevCall, prevChats, result>>

writeVars == <<latest, recent, inserted>>

vars == <<chats, clock, graph, logLines, started, turnVars, directVars, writeVars>>

NoSearch ==
  [ state |-> "none", calls |-> 0, query |-> <<>>, scope |-> NULL, returned |-> {},
    texts |-> {}, error |-> NULL ]

NoGenInput == [calls |-> 0, system |-> NULL, messages |-> <<>>]

NoGen == [state |-> "none", produced |-> 0, delivered |-> 0]

NoCall == [calls |-> 0, outcome |-> "none", args |-> NULL]

\* the record of completed writes after one for id completed with messages
Written(fn, id, messages) ==
  [i \in DOMAIN fn \cup {id} |-> IF i = id THEN messages ELSE fn[i]]

\* the count of inserted rows after n more rows were added under id
Counted(fn, id, n) ==
  IF n = 0 THEN fn
  ELSE [i \in DOMAIN fn \cup {id} |->
          (IF i \in DOMAIN fn THEN fn[i] ELSE 0) + (IF i = id THEN n ELSE 0)]

NoDirectCall == [op |-> "none", chatId |-> "", messages |-> <<>>, role |-> NULL, patientId |-> NULL]

Init ==
  /\ chats = << >>
  /\ clock = 0
  /\ graph = {}
  /\ logLines = 0
  /\ started = 0
  /\ pc = [t \in Turns |-> "idle"]
  /\ req = [t \in Turns |-> OtherBody("none")]
  /\ resp = [t \in Turns |-> NoResponse]
  /\ lastUserText = [t \in Turns |-> NULL]
  /\ search = [t \in Turns |-> NoSearch]
  /\ genInput = [t \in Turns |-> NoGenInput]
  /\ gen = [t \in Turns |-> NoGen]
  /\ logCall = [t \in Turns |-> NoCall]
  /\ saveCall = [t \in Turns |-> NoCall]
  /\ addCall = [t \in Turns |-> NoCall]
  /\ opCount = 0
  /\ lastCall = NoDirectCall
  /\ prevCall = NoDirectCall
  /\ prevChats = << >>
  /\ result = <<>>
  /\ latest = << >>
  /\ recent = NULL
  /\ inserted = << >>

\* ------------------------------------------------------------------ route.ts: POST
\* streamText({model, system, messages, ...}) is called: the generation starts
BeginGeneration(t, body, note) ==
  /\ genInput' = [genInput EXCEPT ![t] =
        [ calls    |-> 1,
          system   |-> Some(SystemPrompt(body, note)),
          messages |-> convertToModelMessages(RecentMessages(body.messages.v)) ]]
  /\ gen' = [gen EXCEPT ![t] = [state |-> "running", produced |-> 0, delivered |-> 0]]
  /\ resp' = [resp EXCEPT ![t] = Streaming]
  /\ pc' = [pc EXCEPT ![t] = "streaming"]

\* memory.search issued and not awaited: streamText is called at once
IssueSearchNoAwait(t, body, text) ==
  /\ search' = [search EXCEPT ![t] =
        [ state |-> "pending", calls |-> 1, query |-> text,
          scope |-> Some([userId |-> Some(body.patientId.v),
                          agentId |-> Some(body.role.v), limit |-> SearchLimit]),
          returned |-> {}, texts |-> {}, error |-> NULL ]]
  /\ BeginGeneration(t, body, NoHistoryNote)

\* await memory.search(lastUserText, {userId, agentId, limit}): the call is issued
\* and the handler waits for it
IssueSearch(t, body, text) ==
  /\ search' = [search EXCEPT ![t] =
        [ state |-> "pending", calls |-> 1, query |-> text,
          scope |-> Some(SearchScope(body)), returned |-> {}, texts |-> {},
          error |-> NULL ]]
  /\ pc' = [pc EXCEPT ![t] = "searching"]
  /\ genInput' = [genInput EXCEPT ![t] = NoGenInput]
  /\ gen' = [gen EXCEPT ![t] = NoGen]
  /\ resp' = [resp EXCEPT ![t] = NoResponse]

\* POST, from the request to its first external call (or to its early return)
Post(t, body) ==
  /\ pc[t] \in {"idle", "done"}
  /\ started < MaxTurns
  /\ started' = started + 1
  /\ req' = [req EXCEPT ![t] = body]
  /\ logCall' = [logCall EXCEPT ![t] = NoCall]
  /\ saveCall' = [saveCall EXCEPT ![t] = NoCall]
  /\ addCall' = [addCall EXCEPT ![t] = NoCall]
  /\ IF Validate(body) # NoResponse
     THEN /\ resp' = [resp EXCEPT ![t] = Validate(body)]
          /\ pc' = [pc EXCEPT ![t] = "done"]
          /\ lastUserText' = [lastUserText EXCEPT ![t] = NULL]
          /\ search' = [search EXCEPT ![t] = NoSearch]
          /\ genInput' = [genInput EXCEPT ![t] = NoGenInput]
          /\ gen' = [gen EXCEPT ![t] = NoGen]
     ELSE LET text == getLastUserText(body.messages.v)
          IN  /\ lastUserText' = [lastUserText EXCEPT ![t] = text]
              /\ IF TruthyText(text)
                 THEN IssueSearch(t, body, TheValue(text))
                 ELSE /\ search' = [search EXCEPT ![t] = NoSearch]
                      /\ BeginGeneration(t, body, MemoryNote(NULL, {}))
  /\ UNCHANGED <<chats, clock, writeVars, graph, logLines, directVars>>

\* the fact-graph store: the facts a search scoped to scope may return
Matching(facts, scope) ==
  { f \in facts : /\ (scope.userId # NULL => f.userId = scope.userId)
                  /\ (scope.agentId # NULL => f.agentId = scope.agentId) }

\* searchResults.results.map(r => r.memory).filter(Boolean).map(m => `- ${m}`):
\* the lines of the facts that carry a memory text
MemorySnippets(withText) == {[bullet |-> "- ", fact |-> f] : f \in withText}

\* memory.search resolved: the prompt is built and streamText is called
SearchReturn(t) ==
  /\ pc[t] = "searching"
  /\ search[t].state = "pending"
  /\ \E returned \in SUBSET Matching(graph, TheValue(search[t].scope)) :
       \E withText \in SUBSET returned :
         /\ Cardinality(returned) <= TheValue(search[t].scope).limit
         /\ search' = [search EXCEPT ![t].state = "ok", ![t].returned = returned,
                                     ![t].texts = withText]
         /\ BeginGeneration(t, req[t], MemoryNote(NULL, MemorySnippets(withText)))
  /\ UNCHANGED <<chats, clock, writeVars, graph, logLines, started, req, lastUserText,
                 logCall, saveCall, addCall, directVars>>

\* memory.search rejected with no catch around it: the exception escapes POST
SearchFailEscapes(t) ==
  /\ pc[t] = "searching"
  /\ search[t].state = "pending"
  /\ search' = [search EXCEPT ![t].state = "failed", ![t].error = Some("neo4j unreachable")]
  /\ resp' = [resp EXCEPT ![t] = Crash("neo4j unreachable")]
  /\ pc' = [pc EXCEPT ![t] = "done"]
  /\ UNCHANGED <<chats, clock, writeVars, graph, logLines, started, req, lastUserText, genInput, gen,
                 logCall, saveCall, addCall, directVars>>

\* memory.search rejected: the catch sets memoryError and the turn goes on
SearchFail(t) ==
  /\ pc[t] = "searching"
  /\ search[t].state = "pending"
  /\ \E message \in {"neo4j unreachable"} :
       /\ search' = [search EXCEPT ![t].state = "failed", ![t].error = Some(message)]
       /\ BeginGeneration(t, req[t],
            MemoryNote(Some(<<"Failed to search Neo4j: ", message>>), {}))
  /\ UNCHANGED <<chats, clock, writeVars, graph, logLines, started, req, lastUserText,
                 logCall, saveCall, addCall, directVars>>

\* the generation service produces one more chunk of the reply
GenChunk(t) ==
  /\ pc[t] = "streaming"
  /\ gen[t].state = "running"
  /\ gen[t].produced < MaxChunks
  /\ gen' = [gen EXCEPT ![t].produced = @ + 1]
  /\ UNCHANGED <<chats, clock, writeVars, graph, logLines, started, pc, req, resp, lastUserText,
                 search, genInput, logCall, saveCall, addCall, directVars>>

\* a produced chunk is relayed into the response stream
Deliver(t) ==
  /\ pc[t] = "streaming"
  /\ gen[t].delivered < gen[t].produced
  /\ gen' = [gen EXCEPT ![t].delivered = @ + 1]
  /\ UNCHANGED <<chats, clock, writeVars, graph, logLines, started, pc, req, resp, lastUserText,
                 search, genInput, logCall, saveCall, addCall, directVars>>

\* logger.ts writeLog: the line is appended, or the failure is caught and reported
\* on the console; the count of log lines after it
WriteLog(lines, appended) == IF appended THEN lines + 1 ELSE lines

\* the generation completes: streamText's onFinish runs and awaits writeLog
GenFinish(t) ==
  /\ pc[t] = "streaming"
  /\ gen[t].state = "running"
  /\ gen' = [gen EXCEPT ![t].state = "finished"]
  /\ \E appended \in BOOLEAN :
       /\ logLines' = WriteLog(logLines, appended)
       /\ logCall' = [logCall EXCEPT ![t] =
            [ calls   |-> @.calls + 1,
              outcome |-> IF appended THEN "ok" ELSE "failed",
              args    |-> Some([ conversationId |-> req[t].chatId.v,
                                 role |-> req[t].role.v,
                                 patientId |-> req[t].patientId.v ]) ]]
  /\ UNCHANGED <<chats, clock, writeVars, graph, started, pc, req, resp, lastUserText,
                 search, genInput, saveCall, addCall, directVars>>

\* the generation service fails: the stream carries the error to the caller and
\* neither onFinish runs
GenFail(t) ==
  /\ pc[t] = "streaming"
  /\ gen[t].state = "running"
  /\ gen' = [gen EXCEPT ![t].state = "failed"]
  /\ resp' = [resp EXCEPT ![t].stream = "error"]
  /\ pc' = [pc EXCEPT ![t] = "done"]
  /\ UNCHANGED <<chats, clock, writeVars, graph, logLines, started, req, lastUserText,
                 search, genInput, logCall, saveCall, addCall, directVars>>

\* the reply as a UI message: one text part holding the chunks
ResponseMessage(chunks) ==
  Msg("assistant", IF chunks = 0 THEN <<>> ELSE <<TextPart([i \in 1..chunks |-> "r"])>>)

\* the messages handed to the response stream's onFinish, built from
\* originalMessages and the reply: the reply is a new assistant message after
\* them, unless originalMessages ends in an assistant message, which the reply
\* then continues (its parts are added to that message)
UpdatedMessages(originalMessages, chunks) ==
  LET n == Len(originalMessages)
  IN  IF n > 0 /\ originalMessages[n].role = "assistant"
      THEN [originalMessages EXCEPT ![n].parts = @ \o ResponseMessage(chunks).parts]
      ELSE Append(originalMessages, ResponseMessage(chunks))

\* persistence that does not wait for the stream's onFinish
OnFinishEarly(t) == gen[t].state \in {"running", "finished"}

\* when toUIMessageStreamResponse calls its onFinish: the generation has finished
\* and every chunk has passed into the response stream
OnFinishReady(t) ==
  /\ gen[t].state = "finished"
  /\ gen[t].delivered = gen[t].produced

\* saveChat with no try/catch: its failure ends the callback
AfterSaveChatNoCatch(saveOutcome, text, mem0Messages) ==
  IF saveOutcome = "failed" THEN "done"
  ELSE IF TruthyText(text) /\ Len(mem0Messages) > 0 THEN "adding" ELSE "done"

\* a memory.add that does not look at lastUserText
AfterSaveChatAlwaysAdds(saveOutcome, text, mem0Messages) ==
  IF Len(mem0Messages) > 0 THEN "adding" ELSE "done"

\* what follows the saveChat try/catch: memory.add when there is a lastUserText
\* and a message to add
AfterSaveChat(saveOutcome, text, mem0Messages) ==
  IF TruthyText(text) /\ Len(mem0Messages) > 0 THEN "adding" ELSE "done"

\* the response stream's onFinish: saveChat in its try/catch, then memory.add is
\* issued and awaited
StreamOnFinish(t) ==
  /\ pc[t] = "streaming"
  /\ OnFinishReady(t)
  /\ LET body == req[t]
         updated == UpdatedMessages(body.messages.v, gen[t].produced)
         mem0Messages == Mem0Messages(updated)
     IN  \E saved \in BOOLEAN, d \in {0, 1} :
           LET outcome == IF saved THEN "ok" ELSE "failed"
           IN  /\ clock' = clock + d
               /\ chats' = IF saved
                           THEN SaveChatTable(chats, body.chatId.v, updated,
                                  Some(body.role.v), Some(body.patientId.v), clock + d)
                           ELSE chats
               /\ latest' = IF saved THEN Written(latest, body.chatId.v, updated) ELSE latest
               /\ recent' = IF saved THEN Some(body.chatId.v) ELSE recent
               /\ inserted' = IF saved
                              THEN Counted(inserted, body.chatId.v,
                                     SaveChatInserts(chats, body.chatId.v))
                              ELSE inserted
               /\ saveCall' = [saveCall EXCEPT ![t] =
                    [ calls   |-> @.calls + 1,
                      outcome |-> outcome,
                      args    |-> Some([ chatId |-> body.chatId.v, messages |-> updated,
                                         role |-> body.role.v,
                                         patientId |-> body.patientId.v ]) ]]
               /\ IF AfterSaveChat(outcome, lastUserText[t], mem0Messages) = "adding"
                  THEN /\ addCall' = [addCall EXCEPT ![t] =
                            [ calls   |-> @.calls + 1,
                              outcome |-> "pending",
                              args    |-> Some([ messages |-> mem0Messages,
                                                 scope |-> AddScope(body) ]) ]]
                       /\ pc' = [pc EXCEPT ![t] = "adding"]
                       /\ resp' = resp
                  ELSE /\ addCall' = addCall
                       /\ pc' = [pc EXCEPT ![t] = "done"]
                       /\ resp' = [resp EXCEPT ![t].stream = "complete"]
  /\ UNCHANGED <<graph, logLines, started, req, lastUserText, search, genInput, gen,
                 logCall, directVars>>

\* the fact the store keeps for a submission: its tags, and (for the record) the
\* patient and role of the turn that submitted it
Fact(scope, body) ==
  [ userId |-> scope.userId, agentId |-> scope.agentId, runId |-> scope.runId,
    by |-> [patientId |-> body.patientId.v, role |-> body.role.v] ]

\* memory.add resolved: the store has extracted a fact from the messages, or none
AddReturn(t) ==
  /\ pc[t] = "adding"
  /\ \E extracted \in BOOLEAN :
       graph' = IF extracted
                THEN graph \cup {Fact(TheValue(addCall[t].args).scope, req[t])}
                ELSE graph
  /\ addCall' = [addCall EXCEPT ![t].outcome = "ok"]
  /\ pc' = [pc EXCEPT ![t] = "done"]
  /\ resp' = [resp EXCEPT ![t].stream = "complete"]
  /\ UNCHANGED <<chats, clock, writeVars, logLines, started, req, lastUserText, search, genInput,
                 gen, logCall, saveCall, directVars>>

\* memory.add rejected: the catch reports it on the console
AddFail(t) ==
  /\ pc[t] = "adding"
  /\ addCall' = [addCall EXCEPT ![t].outcome = "failed"]
  /\ pc' = [pc EXCEPT ![t] = "done"]
  /\ resp' = [resp EXCEPT ![t].stream = "complete"]
  /\ UNCHANGED <<chats, clock, writeVars, graph, logLines, started, req, lastUserText, search,
                 genInput, gen, logCall, saveCall, directVars>>

Next ==
  \E t \in Turns :
    \/ \E body \in Bodies : Post(t, body)
    \/ SearchReturn(t)
    \/ SearchFail(t)
    \/ GenChunk(t)
    \/ Deliver(t)
    \/ GenFinish(t)
    \/ GenFail(t)
    \/ StreamOnFinish(t)
    \/ AddReturn(t)
    \/ AddFail(t)

Spec == Init /\ [][Next]_vars

\* ------------------------------------------------------------------ chat-storage.ts called directly
ChatIds == {"c1", "c2"}

\* a text of 120 characters
LongText == [i \in 1..120 |-> "x"]

\* an assistant message of two text parts, 241 characters when joined
AssistantLong == Msg("assistant", <<TextPart(LongText), TextPart(LongText)>>)

\* the arguments of direct saveChat calls: role and patientId are optional; the
\* last message of the longest list has more text than the preview keeps
StoreLists == { <<>>, <<UserA>>, <<UserA, AssistantLong>> }

StoreRoles == {NULL, Some("doctor"), Some("nurse")}

StorePatientIds == {NULL, Some("p1"), Some("p2")}

\* createChat(), generateId() having drawn id
CreateChat(id) ==
  /\ opCount < MaxOps
  /\ opCount' = opCount + 1
  /\ \E d \in {0, 1} :
       /\ clock' = clock + d
       /\ chats' = CreateChatTable(chats, id, clock + d)
  /\ latest' = IF id \in DOMAIN chats THEN latest ELSE Written(latest, id, <<>>)
  /\ recent' = IF id \in DOMAIN chats THEN recent ELSE Some(id)
  /\ inserted' = Counted(inserted, id, CreateChatInserts(chats, id))
  /\ prevChats' = chats
  /\ prevCall' = lastCall
  /\ lastCall' = [ op |-> "createChat", chatId |-> id, messages |-> <<>>,
                   role |-> NULL, patientId |-> NULL ]
  /\ UNCHANGED <<graph, logLines, started, turnVars, result>>

\* saveChat({chatId, messages, role, patientId})
SaveChat(chatId, messages, role, patientId) ==
  /\ opCount < MaxOps
  /\ opCount' = opCount + 1
  /\ \E d \in {0, 1} :
       /\ clock' = clock + d
       /\ chats' = SaveChatTable(chats, chatId, messages, role, patientId, clock + d)
  /\ latest' = Written(latest, chatId, messages)
  /\ recent' = Some(chatId)
  /\ inserted' = Counted(inserted, chatId, SaveChatInserts(chats, chatId))
  /\ prevChats' = chats
  /\ prevCall' = lastCall
  /\ lastCall' = [ op |-> "saveChat", chatId |-> chatId, messages |-> messages,
                   role |-> role, patientId |-> patientId ]
  /\ UNCHANGED <<graph, logLines, started, turnVars, result>>

\* GET /api/conversations/[id]: loadChat(id)
LoadChat(chatId) ==
  /\ opCount < MaxOps
  /\ opCount' = opCount + 1
  /\ result' = LoadChatResult(chats, chatId)
  /\ prevChats' = chats
  /\ prevCall' = lastCall
  /\ lastCall' = [ op |-> "loadChat", chatId |-> chatId, messages |-> <<>>,
                   role |-> NULL, patientId |-> NULL ]
  /\ UNCHANGED <<chats, clock, writeVars, graph, logLines, started, turnVars>>

\* GET /api/conversations: listChats()
ListChats ==
  /\ opCount < MaxOps
  /\ opCount' = opCount + 1
  /\ \E o \in ListOrders(chats) : result' = ListChatsResult(chats, o)
  /\ prevChats' = chats
  /\ prevCall' = lastCall
  /\ lastCall' = [ op |-> "listChats", chatId |-> "", messages |-> <<>>,
                   role |-> NULL, patientId |-> NULL ]
  /\ UNCHANGED <<chats, clock, writeVars, graph, logLines, started, turnVars>>

NextStore ==
  \/ \E id \in ChatIds : CreateChat(id)
  \/ \E chatId \in ChatIds, messages \in StoreLists,
        role \in StoreRoles, patientId \in StorePatientIds :
       SaveChat(chatId, messages, role, patientId)
  \/ \E chatId \in ChatIds : LoadChat(chatId)
  \/ ListChats

SpecStore == Init /\ [][NextStore]_vars

\* ------------------------------------------------------------------ concurrent turns
\* Two requests in flight at once: each POST is an async function, and the
\* handlers interleave at their awaits (memory.search, the stream, memory.add).
ConcTurns == {"t1", "t2"}

\* the requests of concurrent turns: the same conversation, a short and a long
\* message list
ConcLists == { <<UserA>>, <<UserA, AssistantB, UserA>> }

ConcBodies ==
  [ kind : {"object"}, messages : {JArray(l) : l \in ConcLists},
    chatId : {JString("c1")}, role : {JString("doctor")}, patientId : {JString("p1")} ]

InitConc ==
  /\ chats = << >>
  /\ clock = 0
  /\ graph = {}
  /\ logLines = 0
  /\ started = 0
  /\ pc = [t \in ConcTurns |-> "idle"]
  /\ req = [t \in ConcTurns |-> OtherBody("none")]
  /\ resp = [t \in ConcTurns |-> NoResponse]
  /\ lastUserText = [t \in ConcTurns |-> NULL]
  /\ search = [t \in ConcTurns |-> NoSearch]
  /\ genInput = [t \in ConcTurns |-> NoGenInput]
  /\ gen = [t \in ConcTurns |-> NoGen]
  /\ logCall = [t \in ConcTurns |-> NoCall]
  /\ saveCall = [t \in ConcTurns |-> NoCall]
  /\ addCall = [t \in ConcTurns |-> NoCall]
  /\ opCount = 0
  /\ lastCall = NoDirectCall
  /\ prevCall = NoDirectCall
  /\ prevChats = << >>
  /\ result = <<>>
  /\ latest = << >>
  /\ recent = NULL
  /\ inserted = << >>

NextConc ==
  \E t \in ConcTurns :
    \/ \E body \in ConcBodies : Post(t, body)
    \/ SearchReturn(t)
    \/ SearchFail(t)
    \/ GenChunk(t)
    \/ Deliver(t)
    \/ GenFinish(t)
    \/ GenFail(t)
    \/ StreamOnFinish(t)
    \/ AddReturn(t)
    \/ AddFail(t)

SpecConc == InitConc /\ [][NextConc]_vars

\* ------------------------------------------------------------------ turns and reads of two conversations
\* Two requests in flight at once, each for one of two conversations, while the
\* conversations routes and createChat are called as well.
MixedBodies ==
  [ kind : {"object"}, messages : {JArray(<<UserA>>)},
    chatId : {JString(c) : c \in ChatIds}, role : {JString("doctor")},
    patientId : {JString("p1")} ]

NextMixed ==
  \/ \E t \in ConcTurns :
       \/ \E body \in MixedBodies : Post(t, body)
       \/ SearchReturn(t)
       \/ SearchFail(t)
       \/ GenChunk(t)
       \/ Deliver(t)
       \/ GenFinish(t)
       \/ GenFail(t)
       \/ StreamOnFinish(t)
       \/ AddReturn(t)
       \/ AddFail(t)
  \/ \E id \in ChatIds : opCount < MaxMixedOps /\ CreateChat(id)
  \/ \E chatId \in ChatIds : opCount < MaxMixedOps /\ LoadChat(chatId)
  \/ opCount < MaxMixedOps /\ ListChats

SpecMixed == InitConc /\ [][NextMixed]_vars

\* ------------------------------------------------------------------ a caller that disconnects
\* The caller closes the connection while the response is streaming: the response
\* stream is cancelled. POST never calls result.consumeStream() and passes no
\* consumeSseStream, so nothing else reads the stream: a generation still running
\* stops with it, the stream is never flushed, and the onFinish of
\* toUIMessageStreamResponse is not called.
Disconnect(t) ==
  /\ pc[t] = "streaming"
  /\ resp[t].stream = "open"
  /\ resp' = [resp EXCEPT ![t].stream = "cancelled"]
  /\ gen' = [gen EXCEPT ![t].state = IF @ = "running" THEN "aborted" ELSE @]
  /\ pc' = [pc EXCEPT ![t] = "done"]
  /\ UNCHANGED <<chats, clock, writeVars, graph, logLines, started, req, lastUserText,
                 search, genInput, logCall, saveCall, addCall, directVars>>

NextCancel ==
  \/ Next
  \/ \E t \in Turns : Disconnect(t)

SpecCancel == Init /\ [][NextCancel]_vars

\* ------------------------------------------------------------------ properties of the turn pipeline
\* A well-formed request: a JSON object whose messages is an array, whose chatId
\* and patientId are non-empty strings and whose role is one of the three roles.
WellFormed(body) ==
  /\ body.kind = "object"
  /\ body.messages.t = "array"
  /\ body.chatId.t = "string" /\ body.chatId.v # ""
  /\ body.role.t = "string" /\ body.role.v \in ValidRoles
  /\ body.patientId.t = "string" /\ body.patientId.v # ""

Ended(t) == pc[t] = "done"

NoExternalCall(t) ==
  /\ search[t].calls = 0
  /\ genInput[t].calls = 0
  /\ saveCall[t].calls = 0
  /\ addCall[t].calls = 0
  /\ logCall[t].calls = 0

\* the caller sees a failure: a non-200 answer, or a stream that ends in an error
TurnFailed(t) == resp[t].status # 200 \/ resp[t].stream = "error"

HasText(t) == TruthyText(lastUserText[t])

PromptNote(t) == TheValue(genInput[t].system).memoryNote

\* C1: every request that is not well-formed (a body that is not JSON, or
\* messages / chatId / role / patientId absent or of the wrong shape, or a role
\* outside the three roles) is answered 400 at once, with no search, no
\* generation, no transcript write, no fact submission and no log append.
C1_RejectedWith400AndNoCall ==
  \A t \in Turns :
    (Ended(t) /\ ~WellFormed(req[t])) => (resp[t].status = 400 /\ NoExternalCall(t))

\* C2: in a turn with a lastUserText the search has returned or failed before
\* streamText is called; in a turn without one no search is issued and streamText
\* is still called; no generation runs while the turn's search is outstanding.
C2_SearchSettledBeforeGeneration ==
  \A t \in Turns :
    /\ genInput[t].calls > 0 =>
         /\ search[t].state # "pending"
         /\ (HasText(t) => search[t].state \in {"ok", "failed"} /\ search[t].calls = 1)
         /\ (~HasText(t) => search[t].state = "none" /\ search[t].calls = 0)
    /\ (pc[t] # "idle" /\ WellFormed(req[t]) /\ ~HasText(t)) => genInput[t].calls = 1
    /\ search[t].state = "pending" => (gen[t].state = "none" /\ genInput[t].calls = 0)

C2_Witness ==
  \E t \in Turns : gen[t].state = "running" /\ search[t].state = "ok" /\ HasText(t)

\* C3: saveChat and memory.add are invoked only once the generation has finished
\* and every produced chunk has passed into the response stream.
C3_PersistenceAfterGeneration ==
  \A t \in Turns :
    (saveCall[t].calls > 0 \/ addCall[t].calls > 0) =>
      /\ gen[t].state = "finished"
      /\ gen[t].delivered = gen[t].produced

C3_Witness ==
  \E t \in Turns :
    pc[t] = "adding" /\ saveCall[t].calls = 1 /\ addCall[t].calls = 1 /\ gen[t].produced > 0

C5_FailureOnlyFromRequestOrGeneration ==
  \A t \in Turns :
    Ended(t) =>
      /\ TurnFailed(t) <=> (~WellFormed(req[t]) \/ gen[t].state = "failed")
      /\ gen[t].state = "finished" =>
           /\ resp[t].status = 200
           /\ resp[t].stream = "complete"
           /\ gen[t].delivered = gen[t].produced

C5_Witness ==
  \E t \in Turns :
    /\ Ended(t) /\ ~TurnFailed(t)
    /\ search[t].state = "failed"
    /\ logCall[t].outcome = "failed"
    /\ saveCall[t].outcome = "failed"
    /\ addCall[t].outcome = "failed"
    /\ gen[t].produced > 0

\* C6: when the search fails the turn goes on: streamText is called, and the
\* memory section of its system prompt is the error marker carrying the reason.
C6_SearchFailureBecomesMarker ==
  \A t \in Turns :
    search[t].state = "failed" =>
      /\ genInput[t].calls = 1
      /\ gen[t].state # "none"
      /\ resp[t].status = 200
      /\ PromptNote(t).kind = "error"
      /\ PromptNote(t).reason = <<"Failed to search Neo4j: ", TheValue(search[t].error)>>
      /\ PromptNote(t).facts = {}

C6_Witness ==
  \E t \in Turns : search[t].state = "failed" /\ gen[t].state = "finished"

\* C7: a turn's search is scoped to exactly its patientId and role, its
\* submission is tagged with exactly its patientId, role and chatId, and every
\* fact returned to a turn or placed in its prompt was submitted by a turn of the
\* same patient and the same role.
C7_PatientAndRoleScoping ==
  \A t \in Turns :
    LET mine == [patientId |-> req[t].patientId.v, role |-> req[t].role.v]
    IN  /\ search[t].calls > 0 =>
             /\ search[t].scope =
                  Some([ userId |-> Some(mine.patientId), agentId |-> Some(mine.role),
                         limit |-> SearchLimit ])
             /\ \A f \in search[t].returned : f.by = mine
        /\ genInput[t].calls > 0 => \A line \in PromptNote(t).facts : line.fact.by = mine
        /\ addCall[t].calls > 0 =>
             TheValue(addCall[t].args).scope =
               [ userId |-> Some(mine.patientId), agentId |-> Some(mine.role),
                 runId |-> Some(req[t].chatId.v) ]

\* a search that succeeded while the graph held a fact of the same patient
\* submitted under another role
C7_Witness ==
  \E t \in Turns :
    /\ search[t].state = "ok"
    /\ \E f \in graph : f.by.patientId = req[t].patientId.v /\ f.by.role # req[t].role.v

\* the field f of the body is absent or of the wrong shape
Defective(body, f) ==
  CASE f = "messages"  -> body.messages.t # "array"
    [] f = "chatId"    -> ~(body.chatId.t = "string" /\ body.chatId.v # "")
    [] f = "role"      -> ~(body.role.t = "string" /\ body.role.v \in ValidRoles)
    [] f = "patientId" -> ~(body.patientId.t = "string" /\ body.patientId.v # "")

FieldOrder == <<"messages", "chatId", "role", "patientId">>

\* the first defective field of the body, in the order of FieldOrder
FirstDefect(body) ==
  FieldOrder[CHOOSE i \in 1..4 :
               /\ Defective(body, FieldOrder[i])
               /\ \A j \in 1..(i - 1) : ~Defective(body, FieldOrder[j])]

\* C16 as stated: a request that parses as JSON and has a defective field (absent
\* or of the wrong shape, or a role outside the three roles) is answered with an
\* error naming its first defective field, in the order messages, chatId, role,
\* patientId; a body without any field (null) lacks messages first.
C16_RejectionNamesFirstDefect ==
  \A t \in Turns :
    (Ended(t) /\ req[t].kind \in {"object", "null"} /\ ~WellFormed(req[t])) =>
      resp[t].error = FirstDefect(req[t])

\* C17: streamText receives at most 2 messages: the whole inbound list when it
\* has 2 or fewer, otherwise its last 2 in their order, each converted one for
\* one; no older message is passed.
C17_WindowOfTwo ==
  \A t \in Turns :
    genInput[t].calls > 0 =>
      LET inbound == req[t].messages.v
          sent    == genInput[t].messages
          skipped == IF Len(inbound) <= 2 THEN 0 ELSE Len(inbound) - 2
      IN  /\ Len(sent) <= 2
          /\ Len(sent) = Len(inbound) - skipped
          /\ \A i \in 1..Len(sent) :
                /\ sent[i].role = inbound[skipped + i].role
                /\ sent[i].content = inbound[skipped + i].parts

\* a generation called for a request of more than 2 messages
C17_Witness ==
  \E t \in Turns :
    /\ genInput[t].calls = 1
    /\ Len(req[t].messages.v) > 2
    /\ Len(genInput[t].messages) = 2
    /\ gen[t].state = "finished"

\* C18 as stated: the transcript a finished turn stores is the whole inbound
\* list, each message as it came and in order, followed by the reply as one more
\* assistant message.
C18_TranscriptIsInboundThenReply ==
  \A t \in Turns :
    saveCall[t].outcome = "ok" =>
      LET inbound == req[t].messages.v
          stored  == JSONparse(chats[req[t].chatId.v].messages)
      IN  /\ Len(stored) = Len(inbound) + 1
          /\ \A i \in 1..Len(inbound) : stored[i] = inbound[i]
          /\ stored[Len(stored)].role = "assistant"

\* C19: the messages a turn submits to the fact graph are the last 4 of the
\* final message sequence (all of them when there are fewer), in order, each as
\* its role and the text of its text parts, and the submission is tagged with the
\* turn's patientId, role and chatId.
C19_SubmissionIsTrailingWindow ==
  \A t \in Turns :
    addCall[t].calls > 0 =>
      LET final     == TheValue(saveCall[t].args).messages
          submitted == TheValue(addCall[t].args).messages
          skipped   == IF Len(final) <= 4 THEN 0 ELSE Len(final) - 4
      IN  /\ Len(submitted) <= 4
          /\ Len(submitted) = Len(final) - skipped
          /\ \A i \in 1..Len(submitted) :
                /\ submitted[i].role = final[skipped + i].role
                /\ submitted[i].content = Trim(JoinSpace(PartTexts(final[skipped + i].parts)))
          /\ TheValue(addCall[t].args).scope =
                [ userId  |-> Some(req[t].patientId.v),
                  agentId |-> Some(req[t].role.v),
                  runId   |-> Some(req[t].chatId.v) ]

\* a submission for a final sequence of 5 messages
C19_Witness ==
  \E t \in Turns :
    /\ addCall[t].calls = 1
    /\ addCall[t].outcome = "ok"
    /\ Len(TheValue(saveCall[t].args).messages) = 5
    /\ Len(TheValue(addCall[t].args).messages) = 4
    /\ TheValue(addCall[t].args).messages[1].role = "user"

\* C20: the memory section of the system prompt is one of three, by the outcome
\* of the search: the error marker when it failed; the list of fact lines when it
\* returned at least one result with a memory text; the no-history marker
\* otherwise, that is when it returned no such result and when the turn has no
\* lastUserText and no search was made.
C20_MemorySectionByOutcome ==
  \A t \in Turns :
    genInput[t].calls > 0 =>
      /\ search[t].state \in {"failed", "ok", "none"}
      /\ search[t].state = "none" <=> ~HasText(t)
      /\ search[t].state = "failed" => PromptNote(t).kind = "error"
      /\ (search[t].state = "ok" /\ search[t].texts # {}) =>
           /\ PromptNote(t).kind = "facts"
           /\ {line.fact : line \in PromptNote(t).facts} = search[t].texts
      /\ (search[t].state = "none" \/ (search[t].state = "ok" /\ search[t].texts = {})) =>
           PromptNote(t) = NoHistoryNote

\* a search that returned results, none with a memory text
C20_Witness ==
  \E t \in Turns :
    /\ genInput[t].calls = 1
    /\ search[t].state = "ok"
    /\ search[t].returned # {}
    /\ search[t].texts = {}
    /\ PromptNote(t).kind = "none"

\* C24: a turn whose generation finished submits to the fact graph exactly when
\* it has a lastUserText, the condition under which it searched; a turn whose
\* latest user message has no text (or that has no user message) still calls
\* saveChat and makes no submission.
C24_SubmissionIffUserText ==
  \A t \in Turns :
    /\ addCall[t].calls > 0 => (HasText(t) /\ search[t].calls = 1 /\ saveCall[t].calls = 1)
    /\ (Ended(t) /\ gen[t].state = "finished") =>
         /\ saveCall[t].calls = 1
         /\ addCall[t].calls > 0 <=> HasText(t)
         /\ search[t].calls > 0 <=> HasText(t)

\* a finished turn whose latest user message is blank: saved, nothing submitted
C24_Witness ==
  \E t \in Turns :
    /\ Ended(t)
    /\ gen[t].state = "finished"
    /\ lastUserText[t] = Some(<<>>)
    /\ saveCall[t].outcome = "ok"
    /\ addCall[t].calls = 0
    /\ search[t].calls = 0

\* ------------------------------------------------------------------ properties of the transcript store
LastWasUpdate ==
  /\ lastCall.op = "saveChat"
  /\ lastCall.chatId \in DOMAIN prevChats

\* C8: saveChat on an id that has a row replaces messages and updatedAt; role
\* and patientId change only when the call supplies them, and a call that lacks
\* role or patientId leaves the title as it was.
C8_UpdateKeepsUnsuppliedIdentity ==
  LastWasUpdate =>
    LET old == prevChats[lastCall.chatId]
        new == chats[lastCall.chatId]
    IN  /\ new.messages = JSONstringify(lastCall.messages)
        /\ new.updatedAt = clock
        /\ (lastCall.role = NULL => new.role = old.role)
        /\ (lastCall.patientId = NULL => new.patientId = old.patientId)
        /\ (new.role # old.role => new.role = lastCall.role)
        /\ (new.patientId # old.patientId => new.patientId = lastCall.patientId)
        /\ ((lastCall.role = NULL \/ lastCall.patientId = NULL) => new.title = old.title)

C8_Witness ==
  /\ LastWasUpdate
  /\ lastCall.role = NULL
  /\ lastCall.patientId # NULL
  /\ prevChats[lastCall.chatId].role # NULL
  /\ prevChats[lastCall.chatId].title # NULL
  /\ prevChats[lastCall.chatId].patientId # lastCall.patientId
  /\ prevChats[lastCall.chatId].messages # JSONstringify(lastCall.messages)

\* C9 as stated: once a row holds a role and a patientId, a later saveChat on the
\* id leaves both as first written, and its messages are those of the call.
C9_FirstWriterWins ==
  (LastWasUpdate /\ prevChats[lastCall.chatId].role # NULL
                 /\ prevChats[lastCall.chatId].patientId # NULL) =>
    /\ chats[lastCall.chatId].role = prevChats[lastCall.chatId].role
    /\ chats[lastCall.chatId].patientId = prevChats[lastCall.chatId].patientId
    /\ chats[lastCall.chatId].messages = JSONstringify(lastCall.messages)

\* C9 amended: once a row holds a role and a patientId, a later saveChat on the
\* id that supplies a role (a patientId) stores the supplied one, one that omits
\* it keeps the stored one, and the messages are those of the call.
C9_LastSuppliedWins ==
  (LastWasUpdate /\ prevChats[lastCall.chatId].role # NULL
                 /\ prevChats[lastCall.chatId].patientId # NULL) =>
    LET old == prevChats[lastCall.chatId]
        new == chats[lastCall.chatId]
    IN  /\ new.role = (IF lastCall.role # NULL THEN lastCall.role ELSE old.role)
        /\ new.patientId =
             (IF lastCall.patientId # NULL THEN lastCall.patientId ELSE old.patientId)
        /\ new.messages = JSONstringify(lastCall.messages)

C9_Witness ==
  /\ LastWasUpdate
  /\ prevChats[lastCall.chatId].role # NULL
  /\ prevChats[lastCall.chatId].patientId # NULL
  /\ lastCall.role # NULL
  /\ lastCall.role # prevChats[lastCall.chatId].role
  /\ chats[lastCall.chatId].role = lastCall.role

\* C10: a saveChat repeated with the same arguments leaves every row as the
\* first call left it, except the updatedAt of its own row, and adds no row.
C10_RepeatedSaveChangesOnlyUpdatedAt ==
  (lastCall.op = "saveChat" /\ prevCall = lastCall) =>
    /\ DOMAIN chats = DOMAIN prevChats
    /\ chats = [prevChats EXCEPT ![lastCall.chatId].updatedAt = chats[lastCall.chatId].updatedAt]

C10_Witness ==
  /\ lastCall.op = "saveChat"
  /\ prevCall = lastCall
  /\ opCount = 3
  /\ lastCall.role = NULL
  /\ chats[lastCall.chatId].role # NULL
  /\ chats[lastCall.chatId].updatedAt > chats[lastCall.chatId].createdAt

\* C11: a saveChat that supplies a role and a patientId for an id whose row holds
\* neither (a row createChat made, or a saveChat without them) leaves one row
\* under that id, with the role and the patientId of the call, and adds no row.
C11_PartialIdentityCompleted ==
  (/\ LastWasUpdate
   /\ prevChats[lastCall.chatId].role = NULL
   /\ prevChats[lastCall.chatId].patientId = NULL
   /\ lastCall.role # NULL
   /\ lastCall.patientId # NULL) =>
    /\ DOMAIN chats = DOMAIN prevChats
    /\ chats[lastCall.chatId].role = lastCall.role
    /\ chats[lastCall.chatId].patientId = lastCall.patientId
    /\ chats[lastCall.chatId].createdAt = prevChats[lastCall.chatId].createdAt
    /\ \A id \in DOMAIN prevChats \ {lastCall.chatId} : chats[id] = prevChats[id]

C11_Witness ==
  /\ LastWasUpdate
  /\ prevCall.op = "createChat"
  /\ prevCall.chatId = lastCall.chatId
  /\ lastCall.role = Some("doctor")
  /\ lastCall.patientId = Some("p1")
  /\ chats[lastCall.chatId].role = Some("doctor")
  /\ chats[lastCall.chatId].patientId = Some("p1")
  /\ Cardinality(DOMAIN chats) = 1

\* C12: loadChat returns the messages of the latest write that completed for the
\* id, and the empty sequence for an id that has no row; it changes no row and
\* adds none.
C12_LoadChatReturnsLatest ==
  lastCall.op = "loadChat" =>
    /\ result = (IF lastCall.chatId \in DOMAIN latest THEN latest[lastCall.chatId] ELSE <<>>)
    /\ DOMAIN latest = DOMAIN chats
    /\ chats = prevChats

\* a loadChat of an id written twice, the second write with other messages
C12_Witness ==
  /\ lastCall.op = "loadChat"
  /\ Len(result) = 2
  /\ prevCall.op = "saveChat"
  /\ prevCall.chatId = lastCall.chatId
  /\ prevChats[lastCall.chatId].createdAt < prevChats[lastCall.chatId].updatedAt

\* C13 as stated: listChats returns one summary for each row, in descending
\* updatedAt, and the conversation written most recently comes first.
C13_ListedByRecency ==
  lastCall.op = "listChats" =>
    /\ Len(result) = Cardinality(DOMAIN chats)
    /\ {result[i].id : i \in DOMAIN result} = DOMAIN chats
    /\ \A i, j \in DOMAIN result : i < j => result[i].updatedAt >= result[j].updatedAt
    /\ \A i \in DOMAIN result : result[i] = Summary(chats, result[i].id)
    /\ recent # NULL => result[1].id = TheValue(recent)

\* ------------------------------------------------------------------ properties of concurrent turns
\* C14: with two turns of one conversation in flight at once, the row of the
\* conversation always holds the messages of the saveChat that completed last:
\* there is one row for the id, and once both turns have saved, its messages are
\* those one of the two wrote, whole, and never parts of both.
C14_LastCompletedUpsertWins ==
  /\ DOMAIN chats = DOMAIN latest
  /\ \A id \in DOMAIN chats : JSONparse(chats[id].messages) = latest[id]
  /\ (\A t \in ConcTurns : saveCall[t].outcome = "ok") =>
        /\ DOMAIN chats = {"c1"}
        /\ \E t \in ConcTurns :
              /\ JSONparse(chats["c1"].messages) = TheValue(saveCall[t].args).messages
              /\ chats["c1"].lastMessage = LastText(TheValue(saveCall[t].args).messages)

\* both turns are in flight and both have saved, with different messages
C14_Witness ==
  /\ \A t \in ConcTurns : pc[t] = "adding" /\ saveCall[t].outcome = "ok"
  /\ TheValue(saveCall["t1"].args).messages # TheValue(saveCall["t2"].args).messages
  /\ latest["c1"] = TheValue(saveCall["t1"].args).messages
  /\ chats["c1"].createdAt < chats["c1"].updatedAt

\* ------------------------------------------------------------------ properties of a disconnecting caller
\* C15 as stated: when the caller disconnects during the stream (output has been
\* produced) and the generation has finished on the server, saveChat is still
\* invoked for the turn, and memory.add too when the turn has a lastUserText.
\* A turn that has ended takes no further step, so a call it has not made when
\* it ends is never made.
C15_PersistenceDespiteDisconnect ==
  \A t \in Turns :
    (/\ Ended(t)
     /\ resp[t].stream = "cancelled"
     /\ gen[t].state = "finished"
     /\ gen[t].produced > 0) =>
      /\ saveCall[t].calls = 1
      /\ HasText(t) => addCall[t].calls = 1

\* ------------------------------------------------------------------ properties of the stored records
\* a is a prefix of b
IsPrefix(a, b) == Len(a) <= Len(b) /\ \A i \in 1..Len(a) : a[i] = b[i]

\* C21 as stated: the messages stored for an id before a step are a prefix of
\* those stored for it after the step, so no stored message is ever removed,
\* replaced or moved.
C21_StoredMessagesAppendOnly ==
  [][\A id \in DOMAIN chats :
       /\ id \in DOMAIN chats'
       /\ IsPrefix(JSONparse(chats[id].messages), JSONparse(chats'[id].messages))]_vars

\* C21 amended: every saveChat that completes replaces the stored messages of its
\* id by the whole sequence it was given, and the stored messages of an id change
\* in no other way; no step removes a row. (So the sequence stored before is a
\* prefix of the one stored after exactly when the sequence given extends it.)
C21_StoredMessagesReplacedWhole ==
  [][/\ \A id \in DOMAIN chats :
          /\ id \in DOMAIN chats'
          /\ chats'[id].messages # chats[id].messages =>
               \E t \in Turns :
                 /\ saveCall'[t] # saveCall[t]
                 /\ req[t].chatId.v = id
     /\ \A t \in Turns :
          (saveCall'[t] # saveCall[t] /\ saveCall'[t].outcome = "ok") =>
            JSONparse(chats'[req[t].chatId.v].messages) = TheValue(saveCall'[t].args).messages]_vars

\* a second turn has saved to the row the first turn created, and the messages
\* stored are those of the second turn
C21_Witness ==
  \E t \in Turns :
    /\ started = 2
    /\ saveCall[t].outcome = "ok"
    /\ chats["c1"].createdAt < chats["c1"].updatedAt
    /\ JSONparse(chats["c1"].messages) = TheValue(saveCall[t].args).messages
    /\ Len(req[t].messages.v) = 1

\* C22: each id has at most one row (no second row is ever inserted under an id
\* that has one), and no step of createChat, saveChat, loadChat, listChats or a
\* chat turn removes a row: the set of stored ids only grows.
C22_OneRowPerIdNeverRemoved ==
  /\ [](/\ DOMAIN inserted = DOMAIN chats
        /\ \A id \in DOMAIN inserted : inserted[id] = 1)
  /\ [][DOMAIN chats \subseteq DOMAIN chats']_vars

\* both conversations have a row, one of them made by createChat and saved to
\* by a turn later, the other made by a turn
C22_Witness ==
  /\ DOMAIN chats = ChatIds
  /\ lastCall.op = "createChat"
  /\ chats[lastCall.chatId].createdAt < chats[lastCall.chatId].updatedAt
  /\ \E t \in ConcTurns :
       /\ saveCall[t].outcome = "ok"
       /\ req[t].chatId.v = lastCall.chatId

\* C23: the preview of every row is derived from its stored messages: NULL when
\* they are empty, otherwise the text parts of the last stored message joined by
\* a space and cut to their first 200 characters.
C23_PreviewDerivedFromMessages ==
  \A id \in DOMAIN chats :
    LET stored == JSONparse(chats[id].messages)
    IN  IF stored = <<>> THEN chats[id].lastMessage = NULL
        ELSE LET full    == JoinSpace(PartTexts(stored[Len(stored)].parts))
                 preview == TheValue(chats[id].lastMessage)
             IN  /\ chats[id].lastMessage # NULL
                 /\ Len(preview) <= 200
                 /\ Len(preview) = (IF Len(full) <= 200 THEN Len(full) ELSE 200)
                 /\ \A i \in 1..Len(preview) : preview[i] = full[i]

\* a row updated to a last message of more than 200 characters
C23_Witness ==
  \E id \in DOMAIN chats :
    /\ chats[id].createdAt < chats[id].updatedAt
    /\ chats[id].lastMessage # NULL
    /\ Len(TheValue(chats[id].lastMessage)) = 200
    /\ Len(JoinSpace(PartTexts(JSONparse(chats[id].messages)[2].parts))) = 241
    /\ TheValue(chats[id].lastMessage)[121] = " "

\* C25 as stated: every row whose role and patientId are both set has the title
\* made of the stored role and the stored patientId.
C25_TitleMatchesIdentity ==
  \A id \in DOMAIN chats :
    (chats[id].role # NULL /\ chats[id].patientId # NULL) =>
      chats[id].title =
        Some(<<TheValue(chats[id].role), " <-> Patient ", TheValue(chats[id].patientId)>>)

\* C26: createdAt is the time of the call that made the row (createChat, or the
\* first saveChat) and no later saveChat changes it; every saveChat sets
\* updatedAt to its own time; so createdAt <= updatedAt in every row, the clock
\* never going back.
C26_Timestamps ==
  /\ \A id \in DOMAIN chats :
       chats[id].createdAt <= chats[id].updatedAt /\ chats[id].updatedAt <= clock
  /\ (lastCall.op \in {"saveChat", "createChat"} /\ lastCall.chatId \notin DOMAIN prevChats) =>
       /\ chats[lastCall.chatId].createdAt = clock
       /\ chats[lastCall.chatId].updatedAt = clock
  /\ LastWasUpdate =>
       /\ chats[lastCall.chatId].createdAt = prevChats[lastCall.chatId].createdAt
       /\ chats[lastCall.chatId].updatedAt = clock

\* a row updated twice, each time later than the time before
C26_Witness ==
  /\ LastWasUpdate
  /\ prevChats[lastCall.chatId].createdAt < prevChats[lastCall.chatId].updatedAt
  /\ prevChats[lastCall.chatId].updatedAt < chats[lastCall.chatId].updatedAt

\* C27: a saveChat for one id changes the row of that id only: in every step,
\* also with turns of two conversations in flight at once, a row that changes is
\* the row of the conversation whose turn called saveChat in that step, and
\* every other row keeps every field.
C27_UpsertChangesOnlyItsRow ==
  [][\A b \in DOMAIN chats :
       /\ b \in DOMAIN chats'
       /\ chats'[b] # chats[b] =>
            \E t \in ConcTurns :
              /\ saveCall'[t] # saveCall[t]
              /\ req[t].chatId.v = b]_vars

\* two turns in flight at once have saved, each to its own conversation, the
\* second to a row that existed when the first wrote
C27_Witness ==
  /\ \A t \in ConcTurns : pc[t] = "adding" /\ saveCall[t].outcome = "ok"
  /\ req["t1"].chatId.v = "c1"
  /\ req["t2"].chatId.v = "c2"
  /\ chats["c2"].createdAt < chats["c2"].updatedAt
  /\ chats["c1"].updatedAt < chats["c2"].updatedAt
  /\ \A t \in ConcTurns :
       JSONparse(chats[req[t].chatId.v].messages) = TheValue(saveCall[t].args).messages

====
